---------------------------- MODULE Spec2Model ----------------------------
(***************************************************************************)
(* Model of server.py: a static file server with SPA fallback.             *)
(*                                                                         *)
(* PWAHandler subclasses http.server.SimpleHTTPRequestHandler and          *)
(* overrides end_headers and do_GET; main() binds a socketserver.TCPServer *)
(* and serves forever.  The parts of the standard library the handler      *)
(* inherits (parse_request, translate_path, send_head, send_error, the     *)
(* TCPServer accept loop) are modelled as CPython 3.11 implements them.    *)
(*                                                                         *)
(* A request path is a sequence of tokens (Tok); a file name is a sequence *)
(* of tokens without "/"; a location is a sequence of file names below the *)
(* working directory, Up standing for a step to a parent directory.        *)
(***************************************************************************)
EXTENDS Integers, Sequences, FiniteSets, TLC

\* ------------------------------------------------------------- bounds
MaxPathLen == 3      \* tokens in a raw request path, the leading "/" included
MaxArgLen == 4       \* characters in the command-line argument
MaxClients == 3      \* connections opened by concurrent clients

\* ---------------------------------------------------------- constants
DEFAULT_PORT == 8000
EADDRINUSE_CHECKED == 48
EXIT_ERROR == 1
EXIT_INTERRUPT == 0

NoArg == <<"<absent>">>
NoEnt == << <<"<ENOENT>">> >>

\* ------------------------------------------------------ sequence helpers
Front(s) == SubSeq(s, 1, Len(s) - 1)
Last(s) == s[Len(s)]
SeqsUpTo(S, n) == UNION {[1..k -> S] : k \in 0..n}
Contains(s, x) == \E i \in 1..Len(s) : s[i] = x
Count(s, x) == Cardinality({i \in 1..Len(s) : s[i] = x})

\* ------------------------------------------------------- command line
ArgChars == {"8", "0", "a", "-", " "}
Args == {NoArg} \cup SeqsUpTo(ArgChars, MaxArgLen)
Digits == {"8", "0"}
DigitVal(c) == IF c = "8" THEN 8 ELSE 0

RECURSIVE Strip(_)
\* str.strip() as int() applies it: leading and trailing blanks removed
Strip(s) ==
    IF s = <<>> THEN s
    ELSE IF Head(s) = " " THEN Strip(Tail(s))
    ELSE IF Last(s) = " " THEN Strip(Front(s))
    ELSE s

RECURSIVE DecimalValue(_)
DecimalValue(ds) ==
    IF ds = <<>> THEN 0 ELSE 10 * DecimalValue(Front(ds)) + DigitVal(Last(ds))

\* int(s) succeeds: optional blanks, an optional sign, one or more digits
IsIntLiteral(s) ==
    LET t == Strip(s)
        u == IF t # <<>> /\ Head(t) = "-" THEN Tail(t) ELSE t
    IN  u # <<>> /\ \A i \in 1..Len(u) : u[i] \in Digits

IntValue(s) ==
    LET t == Strip(s)
    IN  IF Head(t) = "-" THEN 0 - DecimalValue(Tail(t)) ELSE DecimalValue(t)

\* ------------------------------------------------------------- paths
Tok == {"/", "?", "..", "a", "%61", "index.html"}
RawPaths == UNION {{p \in [1..n -> Tok] : p[1] = "/"} : n \in 1..MaxPathLen}
RootPath == <<"/">>
IndexPath == <<"/", "index.html">>

IndexName == <<"index.html">>
AName == <<"a">>
PctName == <<"%61">>
ParDir == <<"..">>
Up == <<"^">>

RECURSIVE Split(_)
\* str.split('/'): the names between the slashes, empty ones kept
Split(s) ==
    IF s = <<>> THEN << <<>> >>
    ELSE LET rest == Split(Tail(s))
         IN  IF Head(s) = "/" THEN << <<>> >> \o rest
             ELSE << <<Head(s)>> \o Head(rest) >> \o Tail(rest)

RECURSIVE LStripSlash(_)
LStripSlash(p) == IF p # <<>> /\ Head(p) = "/" THEN LStripSlash(Tail(p)) ELSE p

\* the path of the request line as parse_request stores it in self.path
RequestPath(raw) ==
    IF Len(raw) >= 2 /\ raw[1] = "/" /\ raw[2] = "/"
    THEN <<"/">> \o LStripSlash(raw) ELSE raw

\* ---------------------------------------------------------- filesystem
IndexLoc == <<IndexName>>
ALoc == <<AName>>
PctLoc == <<PctName>>
UpALoc == <<Up, AName>>
Locs == {IndexLoc, ALoc, PctLoc, UpALoc}
RegularKinds == {"file", "locked", "bad"}

\* every tree: index.html may be missing, readable, unreadable (mode 000) or
\* failing while it is read; a may be missing, a file or a directory
Trees ==
    {t \in [Locs -> {"absent", "file", "dir", "locked", "bad"}] :
        /\ t[IndexLoc] \in {"absent", "file", "locked", "bad"}
        /\ t[ALoc] \in {"absent", "file", "dir"}
        /\ t[PctLoc] \in {"absent", "file"}
        /\ t[UpALoc] \in {"absent", "file"}}

OnlyUps(loc) == \A i \in 1..Len(loc) : loc[i] = Up
Parent(loc) == IF OnlyUps(loc) THEN Append(loc, Up) ELSE Front(loc)
KindAt(tree, loc) ==
    IF loc = NoEnt THEN "absent"
    ELSE IF OnlyUps(loc) THEN "dir"
    ELSE IF loc \in Locs THEN tree[loc]
    ELSE "absent"

RECURSIVE Walk(_, _, _)
\* the kernel's path resolution from a directory: each name is looked up in
\* the directory reached so far, ".." steps to the parent
Walk(tree, loc, names) ==
    IF names = <<>> THEN loc
    ELSE IF KindAt(tree, loc) # "dir" THEN NoEnt
    ELSE IF Head(names) = <<>> THEN Walk(tree, loc, Tail(names))
    ELSE IF Head(names) = ParDir THEN Walk(tree, Parent(loc), Tail(names))
    ELSE Walk(tree, Append(loc, Head(names)), Tail(names))

\* where a path relative to the working directory leads
Resolve(tree, rel) == IF rel = <<>> THEN NoEnt ELSE Walk(tree, <<>>, Split(rel))
StatKind(tree, rel) == KindAt(tree, Resolve(tree, rel))
exists(tree, rel) == StatKind(tree, rel) # "absent"

\* ------------------------------------------------- the inherited handler
Methods == {"GET", "HEAD", "POST"}
Versions == {"HTTP/0.9", "HTTP/1.0"}

Unquote(tok) == IF tok = "%61" THEN "a" ELSE tok

RECURSIVE StripQuery(_)
\* path.split('?', 1)[0]
StripQuery(p) ==
    IF p = <<>> \/ Head(p) = "?" THEN <<>> ELSE <<Head(p)>> \o StripQuery(Tail(p))

RECURSIVE NormPath(_, _)
\* posixpath.normpath of an absolute path: empty names dropped, ".." removes
\* the name before it and is dropped at the root
NormPath(acc, names) ==
    IF names = <<>> THEN acc
    ELSE IF Head(names) = <<>> THEN NormPath(acc, Tail(names))
    ELSE IF Head(names) = ParDir
         THEN NormPath(IF acc = <<>> THEN acc ELSE Front(acc), Tail(names))
    ELSE NormPath(Append(acc, Head(names)), Tail(names))

\* SimpleHTTPRequestHandler.translate_path: the query is cut off, the rest is
\* percent-decoded, normalised and joined to the working directory
translate_path(path) ==
    LET q == StripQuery(path)
        decoded == [i \in 1..Len(q) |-> Unquote(q[i])]
    IN  [words |-> NormPath(<<>>, Split(decoded)),
         slash |-> q # <<>> /\ Last(q) = "/"]

\* the location the kernel finds for a translated path
TranslatedLoc(tree, tp) ==
    Walk(tree, <<>>, IF tp.slash THEN Append(tp.words, <<>>) ELSE tp.words)

\* BaseHTTPRequestHandler.send_header: nothing is written for HTTP/0.9
send_header(version, buf, h) == IF version = "HTTP/0.9" THEN buf ELSE Append(buf, h)

\* BaseHTTPRequestHandler.send_response: Server and Date
send_response(version) ==
    send_header(version, send_header(version, <<>>, <<"Server", "SimpleHTTP">>),
                <<"Date", "now">>)

FixedHeaders ==
    << <<"Cache-Control", "no-cache, no-store, must-revalidate">>,
       <<"Pragma", "no-cache">>,
       <<"Expires", "0">>,
       <<"Access-Control-Allow-Origin", "*">>,
       <<"Access-Control-Allow-Methods", "GET, POST, OPTIONS">>,
       <<"Access-Control-Allow-Headers", "Content-Type">> >>

RECURSIVE SendAll(_, _, _)
SendAll(version, buf, hs) ==
    IF hs = <<>> THEN buf
    ELSE SendAll(version, send_header(version, buf, Head(hs)), Tail(hs))

end_headers_without_cors(version, buf) ==
    SendAll(version, buf, SubSeq(FixedHeaders, 1, 3))

\* PWAHandler.end_headers: the six headers, then the inherited end_headers
end_headers(version, buf) == SendAll(version, buf, FixedHeaders)

Response(code, hdrs, body, fault) ==
    [status |-> code, headers |-> hdrs, body |-> body, fault |-> fault]

\* BaseHTTPRequestHandler.send_error: no body for HEAD
send_error(version, method, code, fault) ==
    Response(code,
             end_headers(version,
                 SendAll(version, send_response(version),
                         << <<"Connection", "close">>,
                            <<"Content-Type", "text/html;charset=utf-8">>,
                            <<"Content-Length", "error page">> >>)),
             IF method = "HEAD" THEN <<>> ELSE <<"error page", <<>> >>,
             fault)

\* send_head's answer for a regular file at loc, and what do_GET / do_HEAD do
\* with the open file: do_GET copies it, and a read error ends the copy
ServeFile(tree, version, method, loc) ==
    IF KindAt(tree, loc) = "absent"
    THEN send_error(version, method, 404, "notfound")
    ELSE IF KindAt(tree, loc) \in {"locked", "dir"}
    THEN send_error(version, method, 404, "denied")
    ELSE LET hdrs == end_headers(version,
                        SendAll(version, send_response(version),
                                << <<"Content-type", "by extension">>,
                                   <<"Content-Length", "file size">>,
                                   <<"Last-Modified", "mtime">> >>))
         IN  IF method = "HEAD" THEN Response(200, hdrs, <<>>, "none")
             ELSE IF KindAt(tree, loc) = "bad"
             THEN Response(200, hdrs, <<"partial", loc>>, "ioerror")
             ELSE Response(200, hdrs, <<"bytes", loc>>, "none")

\* SimpleHTTPRequestHandler.send_head followed by do_GET's or do_HEAD's use of
\* its result
send_head(tree, version, method, path) ==
    LET tp == translate_path(path)
        loc == TranslatedLoc(tree, tp)
    IN  IF KindAt(tree, loc) = "dir"
        THEN IF ~tp.slash
             THEN Response(301,
                      end_headers(version,
                          SendAll(version, send_response(version),
                                  << <<"Location", "path/">>,
                                     <<"Content-Length", "0">> >>)),
                      <<>>, "none")
             ELSE IF KindAt(tree, Append(loc, IndexName)) \in RegularKinds
             THEN ServeFile(tree, version, method, Append(loc, IndexName))
             ELSE Response(200,
                      end_headers(version,
                          SendAll(version, send_response(version),
                                  << <<"Content-type", "text/html; charset=utf-8">>,
                                     <<"Content-Length", "listing size">> >>)),
                      IF method = "HEAD" THEN <<>> ELSE <<"listing", loc>>,
                      "none")
        ELSE IF tp.slash THEN send_error(version, method, 404, "notfound")
        ELSE ServeFile(tree, version, method,
                       Walk(tree, <<>>, tp.words))

\* PWAHandler.do_GET, lines 24-25: the path do_GET hands to the inherited do_GET
do_GET_path(tree, path) ==
    IF path = RootPath \/ ~exists(tree, Tail(path)) THEN IndexPath ELSE path

\* self.path as it stands when the method has run
HandledPath(tree, method, version, path) ==
    IF version = "HTTP/0.9" /\ method # "GET" THEN path
    ELSE IF method = "GET" THEN do_GET_path(tree, path)
    ELSE path

\* BaseHTTPRequestHandler.handle_one_request: parse_request's checks, then the
\* do_<command> method, 501 when there is none; parse_request rejects a simple
\* (HTTP/0.9) request other than GET before it has assigned self.command
Respond(tree, method, version, path) ==
    IF version = "HTTP/0.9" /\ method # "GET"
    THEN send_error(version, "unassigned", 400, "badrequest")
    ELSE IF method = "GET"
    THEN send_head(tree, version, method, do_GET_path(tree, path))
    ELSE IF method = "HEAD"
    THEN send_head(tree, version, method, path)
    ELSE send_error(version, method, 501, "unsupported")

\* --------------------------------------------------------------- state
VARIABLES
    argv,       \* sys.argv[1], or NoArg
    platform,   \* the operating system, which numbers the bind errors
    pc,         \* "start", "selected" (main entered), "serving", "exited"
    PORT,       \* <<>> until it is assigned, then <<port>>
    listening,  \* <<>>, or <<port>> once TCPServer has bound
    out,        \* what has been printed, in order
    exitcode,   \* <<>> while the process runs, then <<status>>
    bindError,  \* why the bind failed, "none" if it has not
    sigint,     \* where an interrupt found the process, "none" if none came
    fs,         \* the tree under the working directory
    backlog,    \* connections the kernel holds for accept(), in arrival order
    handling,   \* connections whose handler is running
    wire,       \* the last exchange: request, tree, final path, response
    served,     \* ids of the connections handled, in order
    nconn,      \* connections opened so far
    memo        \* an earlier exchange a client has kept

vars == <<argv, platform, pc, PORT, listening, out, exitcode, bindError, sigint,
          fs, backlog, handling, wire, served, nconn, memo>>

bootVars == <<argv, platform, PORT, listening, out, exitcode, bindError, sigint>>
connVars == <<backlog, handling, wire, served, nconn>>

Platforms == {"darwin", "linux", "windows"}
BindFailures == {"in_use", "denied"}

\* errno of the OSError that bind raises
Errno(plat, cause) ==
    IF cause = "denied" THEN 13
    ELSE IF plat = "darwin" THEN 48
    ELSE IF plat = "linux" THEN 98
    ELSE 10048

Requests == [method : Methods, version : Versions, path : RawPaths]
SeqPaths == {RootPath, <<"/", "a">>, <<"/", "%61">>}
SeqRequests == [method : {"GET", "HEAD"}, version : {"HTTP/1.0"}, path : SeqPaths]
SeqTrees == {t \in Trees : t[IndexLoc] \in {"file", "bad"} /\ t[ALoc] \in {"absent", "file"}
                           /\ t[PctLoc] = "absent" /\ t[UpALoc] = "absent"}
BootRequests == [method : {"GET"}, version : {"HTTP/1.0"}, path : {RootPath}]
PlainTree == [l \in Locs |-> IF l = IndexLoc THEN "file" ELSE "absent"]

InitWith(args, plats, trees) ==
    /\ argv \in args
    /\ platform \in plats
    /\ fs \in trees
    /\ pc = "start"
    /\ PORT = <<>>
    /\ listening = <<>>
    /\ out = <<>>
    /\ exitcode = <<>>
    /\ bindError = "none"
    /\ sigint = "none"
    /\ backlog = <<>>
    /\ handling = {}
    /\ wire = <<>>
    /\ served = <<>>
    /\ nconn = 0
    /\ memo = <<>>

\* ------------------------------------------------------------- startup
PortFromArgvNoDefault(a) ==
    IF a = NoArg THEN DEFAULT_PORT
    ELSE IF IsIntLiteral(a) THEN IntValue(a)
    ELSE 0

\* the __main__ block: int(sys.argv[1]), 8000 on ValueError or without argument
PortFromArgv(a) ==
    IF a = NoArg THEN DEFAULT_PORT
    ELSE IF IsIntLiteral(a) THEN IntValue(a)
    ELSE DEFAULT_PORT

SelectPort ==
    /\ pc = "start"
    /\ PORT' = <<PortFromArgv(argv)>>
    /\ out' = IF argv # NoArg /\ ~IsIntLiteral(argv)
              THEN Append(out, <<"invalid port", DEFAULT_PORT>>) ELSE out
    /\ pc' = "selected"
    /\ UNCHANGED <<argv, platform, listening, exitcode, bindError, sigint, fs, memo>>
    /\ UNCHANGED connVars

PortInRange(p) == p >= 0 /\ p <= 65535

\* TCPServer(("", PORT), PWAHandler) succeeds; the banner is printed
BindOK ==
    /\ pc = "selected"
    /\ PortInRange(PORT[1])
    /\ listening' = PORT
    /\ out' = Append(out, <<"banner", PORT[1]>>)
    /\ pc' = "serving"
    /\ UNCHANGED <<argv, platform, PORT, exitcode, bindError, sigint, fs, memo>>
    /\ UNCHANGED connVars

\* what the except OSError clause prints for an error number
BindErrorMessage(errno, port) ==
    IF errno = EADDRINUSE_CHECKED
    THEN <<"port in use", port, port + 1>>
    ELSE <<"error starting server", errno>>

\* the bind raises OSError: the message, then sys.exit(1)
BindFail ==
    /\ pc = "selected"
    /\ PortInRange(PORT[1])
    /\ \E cause \in BindFailures :
        /\ bindError' = cause
        /\ out' = Append(out, BindErrorMessage(Errno(platform, cause), PORT[1]))
    /\ exitcode' = <<EXIT_ERROR>>
    /\ pc' = "exited"
    /\ UNCHANGED <<argv, platform, PORT, listening, sigint, fs, memo>>
    /\ UNCHANGED connVars

\* a port outside 0..65535: bind raises OverflowError, which no clause catches
BindOverflow ==
    /\ pc = "selected"
    /\ ~PortInRange(PORT[1])
    /\ bindError' = "overflow"
    /\ out' = Append(out, <<"traceback", PORT[1]>>)
    /\ exitcode' = <<EXIT_ERROR>>
    /\ pc' = "exited"
    /\ UNCHANGED <<argv, platform, PORT, listening, sigint, fs, memo>>
    /\ UNCHANGED connVars

\* ------------------------------------------------------------- serving
\* a client connects and sends its request; the kernel queues the connection
Connect(reqs) ==
    /\ pc = "serving"
    /\ nconn < MaxClients
    /\ \E r \in reqs :
        backlog' = Append(backlog, [id |-> nconn + 1, req |-> r])
    /\ nconn' = nconn + 1
    /\ UNCHANGED <<handling, wire, served, pc, fs, memo>>
    /\ UNCHANGED bootVars

\* a client that waits for each response before it connects again
ConnectAlone(reqs) ==
    /\ backlog = <<>>
    /\ handling = {}
    /\ wire = <<>>
    /\ Connect(reqs)

CanAcceptThreaded == TRUE

\* TCPServer handles a request inside the accept loop: the loop does not
\* reach accept() again before the handler has returned
CanAccept == handling = {}

\* serve_forever: get_request()
Accept ==
    /\ pc = "serving"
    /\ backlog # <<>>
    /\ CanAccept
    /\ handling' = handling \cup {Head(backlog)}
    /\ backlog' = Tail(backlog)
    /\ UNCHANGED <<wire, served, nconn, pc, fs, memo>>
    /\ UNCHANGED bootVars

\* the final self.path of the handler that served the previous connection
EarlierPath == IF wire = <<>> THEN <<>> ELSE wire[1].path

ParsedPathSticky(earlier, raw) ==
    IF earlier = IndexPath THEN earlier ELSE RequestPath(raw)

\* parse_request assigns self.path from the request line; the handler is a new
\* instance for each connection and holds nothing of an earlier request
ParsedPath(earlier, raw) == RequestPath(raw)

AfterRequestFatal(fault) == IF fault = "ioerror" THEN "exited" ELSE "serving"

\* _handle_request_noblock: an Exception of the handler is reported by
\* handle_error and the loop goes on
AfterRequest(fault) == "serving"

\* process_request to shutdown_request: the handler parses the request, runs
\* do_<command>, the response is written and the connection closed
Handle ==
    /\ pc = "serving"
    /\ \E c \in handling :
        LET path == ParsedPath(EarlierPath, c.req.path)
            final == HandledPath(fs, c.req.method, c.req.version, path)
            resp == Respond(fs, c.req.method, c.req.version, path)
        IN  /\ wire' = <<[id |-> c.id, req |-> c.req, tree |-> fs,
                          path |-> final, resp |-> resp]>>
            /\ served' = Append(served, c.id)
            /\ handling' = handling \ {c}
            /\ pc' = AfterRequest(resp.fault)
            /\ exitcode' = IF pc' = "exited" THEN <<EXIT_ERROR>> ELSE exitcode
    /\ UNCHANGED <<backlog, nconn, fs, memo>>
    /\ UNCHANGED <<argv, platform, PORT, listening, out, bindError, sigint>>

\* the client has read the response
Receive ==
    /\ wire # <<>>
    /\ wire' = <<>>
    /\ UNCHANGED <<backlog, handling, served, nconn, pc, fs, memo>>
    /\ UNCHANGED bootVars

\* a client keeps the exchange it has just seen
Observe ==
    /\ wire # <<>>
    /\ memo' = wire
    /\ memo' # memo
    /\ UNCHANGED <<pc, fs>>
    /\ UNCHANGED connVars
    /\ UNCHANGED bootVars

\* the files change between requests
TouchFS(trees) ==
    /\ pc = "serving"
    /\ handling = {}
    /\ fs' \in trees \ {fs}
    /\ UNCHANGED <<pc, memo>>
    /\ UNCHANGED connVars
    /\ UNCHANGED bootVars

InterruptUncaught ==
    /\ pc = "serving"
    /\ sigint' = IF handling = {} THEN "idle" ELSE "handling"
    /\ out' = Append(out, <<"traceback">>)
    /\ exitcode' = <<130>>
    /\ pc' = "exited"
    /\ backlog' = <<>>
    /\ handling' = {}
    /\ UNCHANGED <<argv, platform, PORT, listening, bindError, fs, memo>>
    /\ UNCHANGED <<wire, served, nconn>>

\* Ctrl+C inside the try block: the with statement closes the server, except
\* KeyboardInterrupt prints and exits 0; open connections end with the process
Interrupt ==
    /\ pc = "serving"
    /\ sigint' = IF handling = {} THEN "idle" ELSE "handling"
    /\ out' = Append(out, <<"stopped">>)
    /\ exitcode' = <<EXIT_INTERRUPT>>
    /\ pc' = "exited"
    /\ backlog' = <<>>
    /\ handling' = {}
    /\ UNCHANGED <<argv, platform, PORT, listening, bindError, fs, memo>>
    /\ UNCHANGED <<wire, served, nconn>>

\* Ctrl+C before main has entered its try block: nothing catches it
InterruptEarly ==
    /\ pc \in {"start", "selected"}
    /\ sigint' = "early"
    /\ out' = Append(out, <<"traceback">>)
    /\ exitcode' = <<130>>
    /\ pc' = "exited"
    /\ UNCHANGED <<argv, platform, PORT, listening, bindError, fs, memo>>
    /\ UNCHANGED connVars

Boot == SelectPort \/ BindOK \/ BindFail \/ BindOverflow \/ Interrupt \/ InterruptEarly

\* one client at a time, every request, every tree
Init == InitWith({NoArg, <<"-", "8">>}, {"linux"}, Trees)
Next == Boot \/ ConnectAlone(Requests) \/ Accept \/ Handle \/ Receive
Spec == Init /\ [][Next]_vars

\* every command line on every platform
InitBoot == InitWith(Args, Platforms, {PlainTree})
NextBoot == Boot \/ ConnectAlone(BootRequests) \/ Accept \/ Handle \/ Receive
SpecBoot == InitBoot /\ [][NextBoot]_vars

\* concurrent clients, a changing tree
InitSeq == InitWith({NoArg, <<"-", "8">>}, {"linux"}, SeqTrees)
NextSeq ==
    Boot \/ Connect(SeqRequests) \/ Accept \/ Handle \/ Receive \/ Observe
         \/ TouchFS(SeqTrees)
SpecSeq == InitSeq /\ [][NextSeq]_vars

\* ------------------------------------------------------------- claims
Exchanged == wire # <<>>
Seen == wire[1]
\* the request path the handler sees, and the path below the working directory
\* that is left when its leading "/" is stripped
SeenPath == RequestPath(Seen.req.path)
RegularFileAt(tree, rel) == StatKind(tree, rel) \in RegularKinds
IsFixedHeader(h) == \E i \in 1..Len(FixedHeaders) : FixedHeaders[i][1] = h[1]

\* C1 (as claimed): a GET for a path at which no regular file exists, a
\* directory included, is rewritten to /index.html and answered with the bytes
\* of index.html and status 200 when index.html exists, with 404 when it does
\* not.
C1_FallbackForEveryNonFile ==
    (Exchanged /\ Seen.req.method = "GET" /\ Seen.req.version = "HTTP/1.0"
        /\ ~RegularFileAt(Seen.tree, Tail(SeenPath)))
    => /\ Seen.path = IndexPath
       /\ KindAt(Seen.tree, IndexLoc) = "file"
            => Seen.resp.status = 200 /\ Seen.resp.body = <<"bytes", IndexLoc>>
       /\ KindAt(Seen.tree, IndexLoc) = "absent" => Seen.resp.status = 404

\* C2 (as claimed): a GET for a path other than "/" whose raw string names a
\* regular file leaves the path unchanged and is answered with exactly that
\* file's bytes.
C2_ExistingFileServedAsItself ==
    (Exchanged /\ Seen.req.method = "GET" /\ Seen.req.version = "HTTP/1.0"
        /\ SeenPath # RootPath
        /\ StatKind(Seen.tree, Tail(SeenPath)) = "file")
    => /\ Seen.path = SeenPath
       /\ Seen.resp.body = <<"bytes", Resolve(Seen.tree, Tail(SeenPath))>>

C4_FallbackForHead ==
    (Exchanged /\ Seen.req.method = "HEAD" /\ Seen.req.version = "HTTP/1.0"
        /\ (SeenPath = RootPath \/ ~exists(Seen.tree, Tail(SeenPath))))
    => /\ Seen.resp = send_head(Seen.tree, "HTTP/1.0", "HEAD", IndexPath)
       /\ KindAt(Seen.tree, IndexLoc) = "file" => Seen.resp.status # 404

C6_PortInUseMessage ==
    bindError = "in_use"
    => /\ Contains(out, <<"port in use", PORT[1], PORT[1] + 1>>)
       /\ exitcode = <<1>>
       /\ listening = <<>>
       /\ served = <<>>

C10_Sequential ==
    /\ Cardinality(handling) <= 1
    /\ \A i \in 1..Len(served) : served[i] = i
    /\ \A c \in handling : c.id = Len(served) + 1
    /\ \A i \in 1..Len(backlog) :
            backlog[i].id = Len(served) + Cardinality(handling) + i
    /\ \A i \in 1..Len(out) : out[i][1] = "banner" => listening # <<>>
    /\ (pc = "serving" \/ nconn > 0) =>
            listening # <<>> /\ Contains(out, <<"banner", listening[1]>>)

C10_Witness ==
    /\ Cardinality(handling) = 1
    /\ Len(backlog) = 2
    /\ served = <<>>
=============================================================================
